---- MODULE Spec2Model ----
(***************************************************************************)
(* Client Query Management System: the data-access layer of database.py    *)
(* (tables users and queries in one SQLite file) and the script of app.py  *)
(* that calls it: initialise_database at the top of every script run, the  *)
(* Login and Logout buttons, the Submit Query form, the support dashboard. *)
(*                                                                         *)
(* A TEXT value that the code inspects character by character (query_id,   *)
(* status) is a sequence of one-character strings; SQLite compares such    *)
(* values byte by byte (BINARY collation), Python parses, formats and      *)
(* lower-cases them.                                                       *)
(* A timestamp is the number of the clock second it was taken in: the      *)
(* fixed-width text '%Y-%m-%d %H:%M:%S' sorts as that number does.         *)
(* Every database function opens its own connection.  A function whose     *)
(* statement raises skips its commit() and close(): the connection stays   *)
(* open until the interpreter frees it, and if its statement had started   *)
(* a write transaction it keeps SQLite's write lock until then.            *)
(***************************************************************************)
EXTENDS Integers, Sequences, FiniteSets, TLC

(* ------------------------------ bounds --------------------------------- *)
\* rows the queries table may hold
MaxRows == 3
\* rows the queries table may hold where fetch_queries reads it between
\* the steps of the sessions
MaxFetchRows == 2
\* seconds the clock may reach
MaxTime == 2
\* records in one imported CSV file
MaxCsvLen == 1

(* ----------------------------- constants -------------------------------- *)
\* f"Q{new_num:04d}": minimum number of digits
PadWidth == 4
\* sqlite3.connect(DB_NAME): seconds a statement waits for a lock before
\* it raises OperationalError (the default timeout)
BusyTimeout == 5

\* SQL NULL in a timestamp column: sorts before every timestamp
NULL == 0
\* SQL NULL in the image column
NullBlob == "NULL"
\* int() raising ValueError: no digit string parses to a negative number
ValueError == -1
IntegrityError == "IntegrityError"
OperationalError == "OperationalError"
FileNotFoundError == "FileNotFoundError"
None == "None"

\* the two status values the code writes
Opened == <<"O", "p", "e", "n", "e", "d">>
Closed == <<"C", "l", "o", "s", "e", "d">>

(* ------------------------- text as the code sees it --------------------- *)
DigitChars == <<"0", "1", "2", "3", "4", "5", "6", "7", "8", "9">>

UpperChars == <<"A", "B", "C", "D", "E", "F", "G", "H", "I", "J", "K", "L", "M",
                "N", "O", "P", "Q", "R", "S", "T", "U", "V", "W", "X", "Y", "Z">>

LowerChars == <<"a", "b", "c", "d", "e", "f", "g", "h", "i", "j", "k", "l", "m",
                "n", "o", "p", "q", "r", "s", "t", "u", "v", "w", "x", "y", "z">>

IsDigit(c) == \E k \in 1..10 : DigitChars[k] = c

DigitVal(c) == (CHOOSE k \in 1..10 : DigitChars[k] = c) - 1

IsUpper(c) == \E k \in 1..26 : UpperChars[k] = c

\* the byte SQLite's BINARY collation compares
Ord(c) == IF IsDigit(c) THEN 48 + DigitVal(c)
          ELSE IF IsUpper(c) THEN 64 + (CHOOSE k \in 1..26 : UpperChars[k] = c)
          ELSE 96 + (CHOOSE k \in 1..26 : LowerChars[k] = c)

\* memcmp over the common prefix, then the shorter value first
LexLess(a, b) ==
    \/ \E k \in 1..Len(a) :
          /\ k <= Len(b)
          /\ \A j \in 1..(k - 1) : a[j] = b[j]
          /\ Ord(a[k]) < Ord(b[k])
    \/ /\ Len(a) < Len(b)
       /\ \A j \in 1..Len(a) : a[j] = b[j]

RECURSIVE DigitsValue(_)
DigitsValue(s) ==
    IF s = <<>> THEN 0
    ELSE 10 * DigitsValue(SubSeq(s, 1, Len(s) - 1)) + DigitVal(s[Len(s)])

\* int(text) for text over the characters above: ValueError unless it is a
\* non-empty run of decimal digits
ParseInt(s) ==
    IF s # <<>> /\ \A k \in 1..Len(s) : IsDigit(s[k])
    THEN DigitsValue(s)
    ELSE ValueError

RECURSIVE DecimalDigits(_)
DecimalDigits(n) ==
    IF n < 10 THEN <<DigitChars[n + 1]>>
    ELSE Append(DecimalDigits(n \div 10), DigitChars[(n % 10) + 1])

RECURSIVE ZeroPad(_, _)
ZeroPad(s, width) == IF Len(s) >= width THEN s ELSE ZeroPad(<<"0">> \o s, width)

\* f"Q{n:04d}" for n >= 0
FormatQueryId(n) == <<"Q">> \o ZeroPad(DecimalDigits(n), PadWidth)

\* last_id[1:]
DropFirst(s) == IF s = <<>> THEN <<>> ELSE Tail(s)

\* str.lower() of one character: A-Z to a-z, anything else as it is
LowerChar(c) ==
    IF IsUpper(c) THEN LowerChars[CHOOSE k \in 1..26 : UpperChars[k] = c] ELSE c

\* str.lower()
Lower(s) == [k \in 1..Len(s) |-> LowerChar(s[k])]

\* hashlib.sha256(password).hexdigest(): one digest per password
hash_password(password) == <<"sha256", password>>

(* ------------------------------- state ---------------------------------- *)
VARIABLES
    queries,    \* table queries, rows in insertion (rowid) order
    users,      \* table users, rows in insertion order
    locked,     \* a connection left open by a failed INSERT holds the write lock
    now,        \* the clock second datetime.now() falls in
    session,    \* st.session_state: logged_in, role, username
    pc,         \* per browser session: where its script run stands
    pending,    \* per browser session: the insert_query or close_query call it is in
    returned,   \* the query_ids insert_query calls have returned, in order
    last        \* the step taken last: op, args, id, ret, rows, status

vars == <<queries, users, locked, now, session, pc, pending, returned, last>>

Sessions == {1, 2}

(* ------------------------------ SQL pieces ------------------------------ *)
HasQueryId(q, id) == \E i \in 1..Len(q) : q[i].query_id = id

QueryIds(q) == {q[i].query_id : i \in 1..Len(q)}

\* SELECT query_id FROM queries ORDER BY query_id DESC LIMIT 1, then
\* fetchone(): no row (<<>>) or the one row <<query_id>>
SelectLastQueryId(q) ==
    IF q = <<>> THEN <<>>
    ELSE <<CHOOSE id \in QueryIds(q) :
              \A other \in QueryIds(q) : other = id \/ LexLess(other, id)>>

get_next_query_id(q) ==
    LET row == SelectLastQueryId(q) IN
    IF row # <<>>
    THEN LET last_id == row[1]
             num == ParseInt(DropFirst(last_id))
         IN IF num # ValueError THEN FormatQueryId(num + 1) ELSE FormatQueryId(1)
    ELSE FormatQueryId(1)

\* InsertRow had query_id no PRIMARY KEY: the row is always added
InsertRowNoKey(q, lock, row) ==
    IF lock
    THEN [table |-> q, raised |-> OperationalError, locked |-> TRUE]
    ELSE [table |-> Append(q, row), raised |-> None, locked |-> FALSE]

\* InsertOrIgnoreRow as INSERT OR REPLACE: the old row is deleted, the
\* new one added
InsertOrReplaceRow(q, row) ==
    Append(SelectSeq(q, LAMBDA old : old.query_id # row.query_id), row)

\* INSERT OR IGNORE INTO queries ...
InsertOrIgnoreRow(q, row) ==
    IF HasQueryId(q, row.query_id) THEN q ELSE Append(q, row)

\* insert_query from its INSERT on: the table after, the exception raised
\* (None when the call commits, closes and returns) and whether a
\* connection is left holding the write lock.  With the lock taken the
\* statement waits BusyTimeout and raises OperationalError; the PRIMARY KEY
\* on query_id rejects a second row with the same query_id, the statement
\* raises IntegrityError inside the write transaction it began, and the
\* commit and close that would end it are skipped
InsertRow(q, lock, row) ==
    IF lock
    THEN [table |-> q, raised |-> OperationalError, locked |-> TRUE]
    ELSE IF HasQueryId(q, row.query_id)
         THEN [table |-> q, raised |-> IntegrityError, locked |-> TRUE]
         ELSE [table |-> Append(q, row), raised |-> None, locked |-> FALSE]

NewRow(id, mail, mobile, heading, description, created, image) ==
    [query_id |-> id, mail_id |-> mail, mobile_number |-> mobile,
     query_heading |-> heading, query_description |-> description,
     status |-> Opened, query_created_time |-> created,
     query_closed_time |-> NULL, image |-> image]

\* close_query setting the status and leaving query_closed_time alone
close_query_status_only(q, lock, t, id) ==
    IF lock THEN [table |-> q, raised |-> OperationalError]
    ELSE [table |-> [i \in 1..Len(q) |->
                        IF q[i].query_id = id THEN [q[i] EXCEPT !.status = Closed]
                        ELSE q[i]],
          raised |-> None]

\* UPDATE queries SET status = 'Closed', query_closed_time = t WHERE
\* query_id = ?, t the clock close_query read before it: the table after
\* and the exception raised.  The UPDATE needs the write lock whether or
\* not a row matches
close_query(q, lock, t, id) ==
    IF lock THEN [table |-> q, raised |-> OperationalError]
    ELSE [table |-> [i \in 1..Len(q) |->
                        IF q[i].query_id = id
                        THEN [q[i] EXCEPT !.status = Closed, !.query_closed_time = t]
                        ELSE q[i]],
          raised |-> None]

\* the row a CSV record becomes: the renamed columns, image NULL
CsvRow(rec) ==
    [query_id |-> rec.query_id, mail_id |-> rec.client_email,
     mobile_number |-> rec.client_mobile, query_heading |-> rec.query_heading,
     query_description |-> rec.query_description, status |-> rec.status,
     query_created_time |-> rec.date_raised,
     query_closed_time |-> rec.date_closed, image |-> NullBlob]

\* the loop of import_csv: one INSERT OR IGNORE per record; the first of
\* them needs the write lock
RECURSIVE ImportRows(_, _, _)
ImportRows(q, lock, records) ==
    IF records = <<>> THEN [table |-> q, raised |-> None]
    ELSE IF lock THEN [table |-> q, raised |-> OperationalError]
         ELSE ImportRows(InsertOrIgnoreRow(q, CsvRow(Head(records))), lock,
                         Tail(records))

\* import_csv on a path: the table after and the exception raised
import_csv(q, lock, csv) ==
    IF ~csv.isfile THEN [table |-> q, raised |-> FileNotFoundError]
    ELSE ImportRows(q, lock, csv.records)

\* the columns fetch_queries selects: all but image
SelectColumns(row) ==
    [query_id |-> row.query_id, mail_id |-> row.mail_id,
     mobile_number |-> row.mobile_number, query_heading |-> row.query_heading,
     query_description |-> row.query_description, status |-> row.status,
     query_created_time |-> row.query_created_time,
     query_closed_time |-> row.query_closed_time]

\* the WHERE clause fetch_queries builds for its argument: <<>> when the
\* argument is None, <<text>> when it is a string
Selected(row, status) ==
    IF status = <<>> \/ Lower(status[1]) = <<"a", "l", "l">> THEN TRUE
    ELSE row.status = status[1]

\* fetch_queries with ORDER BY query_created_time ASC
fetch_queries_ascending(q, status) ==
    LET match == {i \in 1..Len(q) : Selected(q[i], status)}
        n == Cardinality(match)
        orders == {p \in [1..n -> match] :
                     /\ \A i, j \in 1..n : i # j => p[i] # p[j]
                     /\ \A i \in 1..(n - 1) :
                           q[p[i]].query_created_time <= q[p[i + 1]].query_created_time}
    IN {[i \in 1..n |-> SelectColumns(q[p[i]])] : p \in orders}

\* fetch_queries: every result SQLite may return; rows with equal
\* query_created_time come in an order ORDER BY leaves open
fetch_queries(q, status) ==
    LET match == {i \in 1..Len(q) : Selected(q[i], status)}
        n == Cardinality(match)
        orders == {p \in [1..n -> match] :
                     /\ \A i, j \in 1..n : i # j => p[i] # p[j]
                     /\ \A i \in 1..(n - 1) :
                           q[p[i]].query_created_time >= q[p[i + 1]].query_created_time}
    IN {[i \in 1..n |-> SelectColumns(q[p[i]])] : p \in orders}

(* ------------------------------ users ----------------------------------- *)
\* INSERT OR IGNORE INTO users ...: username is the PRIMARY KEY
add_user(u, username, password, role) ==
    IF \E i \in 1..Len(u) : u[i].username = username THEN u
    ELSE Append(u, [username |-> username,
                    hashed_password |-> hash_password(password), role |-> role])

create_default_users(u) ==
    add_user(add_user(u, "support", "support123", "Support"),
             "client", "client123", "Client")

\* SELECT role FROM users WHERE username = ? AND hashed_password = ?
authenticate_user(u, username, password) ==
    LET hashed == hash_password(password)
        hit == {i \in 1..Len(u) :
                  u[i].username = username /\ u[i].hashed_password = hashed}
    IN IF hit = {} THEN None ELSE u[CHOOSE i \in hit : TRUE].role

default_credentials ==
    [Support |-> [username |-> "support", password |-> "support123"],
     Client |-> [username |-> "client", password |-> "client123"]]

\* authenticate_by_role_and_username accepting either pair under a known role
authenticate_any_pair(role, username, password) ==
    /\ role \in DOMAIN default_credentials
    /\ \E r \in DOMAIN default_credentials :
          /\ username = default_credentials[r].username
          /\ password = default_credentials[r].password

authenticate_by_role_and_username(role, username, password) ==
    IF role \in DOMAIN default_credentials
    THEN LET role_creds == default_credentials[role] IN
         username = role_creds.username /\ password = role_creds.password
    ELSE FALSE

(* ------------------------------ inputs ---------------------------------- *)
\* what the Submit form can hold in its four required fields: all filled,
\* one of them empty, all empty
FormInputs ==
    {<<"a@x.com", "555", "H", "D">>, <<"", "555", "H", "D">>,
     <<"a@x.com", "", "H", "D">>, <<"a@x.com", "555", "", "D">>,
     <<"a@x.com", "555", "H", "">>, <<"", "", "", "">>}
\* the file each session's form has in its uploader: session 1 attaches
\* one, session 2 none
image_file(s) == IF s = 1 THEN "png" ELSE None

CsvRecord(id, status, raised, closed) ==
    [query_id |-> id, client_email |-> "c@y.com", client_mobile |-> "777",
     query_heading |-> "I", query_description |-> "J", status |-> status,
     date_raised |-> raised, date_closed |-> closed]

\* records of a CSV file: a query marked Closed whose date_closed cell is
\* empty (pandas reads NaN, SQLite stores NULL) under the last four-digit
\* id, and an open query under an id that is not Q and a number
CsvRecords ==
    {CsvRecord(<<"Q", "9", "9", "9", "9">>, Closed, 1, NULL),
     CsvRecord(<<"Q", "A">>, Opened, 1, NULL)}

\* the file at csv_path: not there, or there with up to MaxCsvLen records
PathsOf(records) ==
    {[isfile |-> FALSE, records |-> <<>>]} \cup
    {[isfile |-> TRUE, records |-> recs] :
        recs \in UNION {[1..n -> records] : n \in 0..MaxCsvLen}}

CsvPaths == PathsOf(CsvRecords)

\* fetch_queries arguments: None, and texts in several letter cases
StatusFilters ==
    {<<>>, <<<<"a", "l", "l">>>>, <<<<"A", "L", "L">>>>, <<<<"a", "L", "l">>>>,
     <<Opened>>, <<Closed>>, <<<<"O", "P", "E", "N", "E", "D">>>>}

RoleInputs == {"Support", "Client", "Admin"}
\* the roles the login selectbox offers
LoginRoles == {"Support", "Client"}
UsernameInputs == {"support", "client", "Support"}
PasswordInputs == {"support123", "client123", "Support123"}

(* ------------------------------ actions --------------------------------- *)
Done(op, ret) ==
    [op |-> op, args |-> <<>>, id |-> <<>>, ret |-> ret, rows |-> <<>>,
     status |-> <<>>]

LoggedOut == [logged_in |-> FALSE, role |-> None, username |-> None]

\* a session that is in no insert_query or close_query call
NoCall ==
    [id |-> <<>>, mail_id |-> "", mobile_number |-> "", query_heading |-> "",
     query_description |-> "", image |-> NullBlob, created |-> NULL]

\* the clock after a statement has waited BusyTimeout for the lock
AfterBusyTimeout(t) == IF t + BusyTimeout > MaxTime THEN MaxTime ELSE t + BusyTimeout

\* the database file after a script run that found no CSV file to import:
\* both tables exist, users holds the two default accounts, queries is
\* empty; no session has a run under way, nobody is logged in
Init ==
    /\ queries = <<>>
    /\ users = create_default_users(<<>>)
    /\ locked = FALSE
    /\ now = 1
    /\ session = LoggedOut
    /\ pc = [s \in Sessions |-> "idle"]
    /\ pending = [s \in Sessions |-> NoCall]
    /\ returned = <<>>
    /\ last = Done("create_default_users", None)

\* a second passes
Tick ==
    /\ now < MaxTime
    /\ now' = now + 1
    /\ last' = Done("tick", None)
    /\ UNCHANGED <<queries, users, locked, session, pc, pending, returned>>

\* the interpreter frees the connection a failed INSERT left open
CollectGarbage ==
    /\ locked
    /\ locked' = FALSE
    /\ last' = Done("gc", None)
    /\ UNCHANGED <<queries, users, now, session, pc, pending, returned>>

\* app.py, the top of a script run: create_tables (CREATE TABLE IF NOT
\* EXISTS on tables that exist: no write, no lock) and the first add_user
\* of create_default_users, a write transaction of its own: with the
\* write lock taken its INSERT OR IGNORE waits BusyTimeout and raises
\* OperationalError, which ends the run
AddSupportUser(s) ==
    /\ pc[s] = "idle"
    /\ IF locked
       THEN /\ now' = AfterBusyTimeout(now)
            /\ last' = Done("add_user", OperationalError)
            /\ UNCHANGED <<users, pc>>
       ELSE /\ users' = add_user(users, "support", "support123", "Support")
            /\ pc' = [pc EXCEPT ![s] = "add_user"]
            /\ now' = now
            /\ last' = Done("add_user", None)
    /\ UNCHANGED <<queries, locked, session, pending, returned>>

\* create_default_users, the second add_user, on a connection of its own
AddClientUser(s) ==
    /\ pc[s] = "add_user"
    /\ IF locked
       THEN /\ now' = AfterBusyTimeout(now)
            /\ pc' = [pc EXCEPT ![s] = "idle"]
            /\ last' = Done("add_user", OperationalError)
            /\ UNCHANGED users
       ELSE /\ users' = add_user(users, "client", "client123", "Client")
            /\ pc' = [pc EXCEPT ![s] = "fetch"]
            /\ now' = now
            /\ last' = Done("add_user", None)
    /\ UNCHANGED <<queries, locked, session, pending, returned>>

\* app.py, initialise_database: existing = fetch_queries(), a read that
\* the write lock does not stop, and the test of existing.empty; the run
\* goes on to import_csv when the table was empty, to the page otherwise
InitialiseDatabase(s) ==
    /\ pc[s] = "fetch"
    /\ \E existing \in fetch_queries(queries, <<>>) :
          pc' = [pc EXCEPT ![s] = IF existing = <<>> THEN "import" ELSE "ready"]
    /\ last' = Done("initialise_database", None)
    /\ UNCHANGED <<queries, users, locked, now, session, pending, returned>>

\* app.py, initialise_database from import_csv(csv_path) on:
\* FileNotFoundError is swallowed, OperationalError ends the run
ImportCsv(s, csv) ==
    LET r == import_csv(queries, locked, csv)
        known == SelectSeq(csv.records, LAMBDA rec : HasQueryId(queries, rec.query_id))
    IN
    /\ pc[s] = "import"
    /\ Len(r.table) <= MaxRows
    /\ queries' = r.table
    /\ pc' = [pc EXCEPT ![s] = IF r.raised = OperationalError THEN "idle"
                               ELSE "ready"]
    /\ now' = IF r.raised = OperationalError THEN AfterBusyTimeout(now) ELSE now
    /\ last' = [Done("import_csv", r.raised) EXCEPT
                   !.id = IF known = <<>> THEN <<>> ELSE known[1].query_id]
    /\ UNCHANGED <<users, locked, session, pending, returned>>

\* app.py line 82: the bytes of the attachment, None (SQL NULL) without one
image_bytes(file) == IF file # None THEN file ELSE NullBlob

\* SubmitQuery checking the e-mail address only
SubmitQueryMailOnly(s, mail_id, mobile_number, query_heading, query_description) ==
    LET args == <<mail_id, mobile_number, query_heading, query_description>> IN
    /\ pc[s] = "ready"
    /\ IF mail_id = ""
       THEN /\ pc' = [pc EXCEPT ![s] = "idle"]
            /\ last' = [Done("submit_query", "warning") EXCEPT !.args = args]
            /\ UNCHANGED pending
       ELSE /\ pc' = [pc EXCEPT ![s] = "got_id"]
            /\ pending' = [pending EXCEPT ![s] =
                  [id |-> get_next_query_id(queries), mail_id |-> mail_id,
                   mobile_number |-> mobile_number,
                   query_heading |-> query_heading,
                   query_description |-> query_description,
                   image |-> image_bytes(image_file(s)), created |-> NULL]]
            /\ last' = [Done("submit_query", None) EXCEPT
                           !.args = args, !.id = pending'[s].id]
    /\ UNCHANGED <<queries, users, locked, now, session, returned>>

\* app.py, the Submit Query button, up to the first statement of
\* insert_query: the four required fields are checked, image_bytes is
\* taken from the upload, insert_query is entered and reads the next id on
\* a connection of its own
SubmitQuery(s, mail_id, mobile_number, query_heading, query_description) ==
    LET args == <<mail_id, mobile_number, query_heading, query_description>> IN
    /\ pc[s] = "ready"
    /\ IF mail_id = "" \/ mobile_number = "" \/ query_heading = ""
             \/ query_description = ""
       THEN /\ pc' = [pc EXCEPT ![s] = "idle"]
            /\ last' = [Done("submit_query", "warning") EXCEPT !.args = args]
            /\ UNCHANGED pending
       ELSE /\ pc' = [pc EXCEPT ![s] = "got_id"]
            /\ pending' = [pending EXCEPT ![s] =
                  [id |-> get_next_query_id(queries), mail_id |-> mail_id,
                   mobile_number |-> mobile_number,
                   query_heading |-> query_heading,
                   query_description |-> query_description,
                   image |-> image_bytes(image_file(s)), created |-> NULL]]
            /\ last' = [Done("submit_query", None) EXCEPT
                           !.args = args, !.id = pending'[s].id]
    /\ UNCHANGED <<queries, users, locked, now, session, returned>>

\* insert_query, line 171: created_time = datetime.now()
ReadClock(s) ==
    /\ pc[s] = "got_id"
    /\ pc' = [pc EXCEPT ![s] = "got_time"]
    /\ pending' = [pending EXCEPT ![s].created = now]
    /\ last' = Done("read_clock", None)
    /\ UNCHANGED <<queries, users, locked, now, session, returned>>

\* insert_query, lines 172-196: a second connection, the INSERT, commit,
\* close, return query_id; an exception ends the script run
InsertPending(s) ==
    LET call == pending[s]
        done == InsertRow(queries, locked,
                          NewRow(call.id, call.mail_id, call.mobile_number,
                                 call.query_heading, call.query_description,
                                 call.created, call.image))
    IN /\ pc[s] = "got_time"
       /\ Len(done.table) <= MaxRows
       /\ queries' = done.table
       /\ locked' = done.locked
       /\ now' = IF done.raised = OperationalError THEN AfterBusyTimeout(now)
                 ELSE now
       /\ pc' = [pc EXCEPT ![s] = "idle"]
       /\ pending' = [pending EXCEPT ![s] = NoCall]
       /\ returned' = IF done.raised = None
                      THEN Append(returned, call.id)
                      ELSE returned
       /\ last' = [Done("insert_query", done.raised) EXCEPT
                      !.id = IF done.raised = None THEN call.id ELSE <<>>]
       /\ UNCHANGED <<users, session>>

\* app.py, the support dashboard up to the Close Selected Query button:
\* the page lists what fetch_queries returned, the selectbox offers the
\* query_ids of its Opened rows, close_query is entered with the one chosen
SelectQuery(s, selected_query) ==
    /\ pc[s] = "ready"
    /\ \E df \in fetch_queries(queries, <<>>) :
          \E k \in 1..Len(df) :
              df[k].status = Opened /\ df[k].query_id = selected_query
    /\ pc' = [pc EXCEPT ![s] = "selected"]
    /\ pending' = [pending EXCEPT ![s] = [NoCall EXCEPT !.id = selected_query]]
    /\ last' = [Done("select_query", None) EXCEPT !.id = selected_query]
    /\ UNCHANGED <<queries, users, locked, now, session, returned>>

\* close_query, line 205: closed_time = datetime.now()
CloseReadClock(s) ==
    /\ pc[s] = "selected"
    /\ pc' = [pc EXCEPT ![s] = "closing"]
    /\ pending' = [pending EXCEPT ![s].created = now]
    /\ last' = Done("read_clock", None)
    /\ UNCHANGED <<queries, users, locked, now, session, returned>>

\* close_query, lines 206-213: a connection, the UPDATE, commit, close;
\* an exception ends the script run
CloseQuery(s) ==
    LET r == close_query(queries, locked, pending[s].created, pending[s].id) IN
    /\ pc[s] = "closing"
    /\ queries' = r.table
    /\ now' = IF r.raised = OperationalError THEN AfterBusyTimeout(now) ELSE now
    /\ pc' = [pc EXCEPT ![s] = "idle"]
    /\ pending' = [pending EXCEPT ![s] = NoCall]
    /\ last' = [Done("close_query", r.raised) EXCEPT !.id = pending[s].id]
    /\ UNCHANGED <<users, locked, session, returned>>

\* database.fetch_queries(status)
FetchQueries(status) ==
    \E rows \in fetch_queries(queries, status) :
        /\ last' = [Done("fetch_queries", None) EXCEPT
                       !.rows = rows, !.status = status]
        /\ UNCHANGED <<queries, users, locked, now, session, pc, pending, returned>>

Next ==
    \/ Tick
    \/ CollectGarbage
    \/ \E s \in Sessions : AddSupportUser(s)
    \/ \E s \in Sessions : AddClientUser(s)
    \/ \E s \in Sessions : InitialiseDatabase(s)
    \/ \E s \in Sessions, csv \in CsvPaths : ImportCsv(s, csv)
    \/ \E s \in Sessions, f \in FormInputs :
          SubmitQuery(s, f[1], f[2], f[3], f[4])
    \/ \E s \in Sessions : ReadClock(s)
    \/ \E s \in Sessions : InsertPending(s)
    \/ \E s \in Sessions, id \in QueryIds(queries) : SelectQuery(s, id)
    \/ \E s \in Sessions : CloseReadClock(s)
    \/ \E s \in Sessions : CloseQuery(s)

Spec == Init /\ [][Next]_vars

\* fetch_queries reading the table between any two steps of the sessions
NextFetch ==
    \/ Next /\ Len(queries') <= MaxFetchRows
    \/ \E status \in StatusFilters : FetchQueries(status)

SpecFetch == Init /\ [][NextFetch]_vars

(* the login page and the two credential checks of database.py, in script *)
(* runs whose initialise_database found the lock free and left the tables  *)
(* as they were                                                            *)
Bool(b) == IF b THEN "True" ELSE "False"

\* app.py, the Login button
Login(role, username, password) ==
    LET ok == authenticate_by_role_and_username(role, username, password) IN
    /\ ~session.logged_in
    /\ session' = IF ok THEN [logged_in |-> TRUE, role |-> role,
                              username |-> username]
                  ELSE session
    /\ last' = [Done("login", Bool(ok)) EXCEPT !.args = <<role, username, password>>]
    /\ UNCHANGED <<queries, users, locked, now, pc, pending, returned>>

\* app.py, the Logout button
Logout ==
    /\ session.logged_in
    /\ session' = LoggedOut
    /\ last' = Done("logout", None)
    /\ UNCHANGED <<queries, users, locked, now, pc, pending, returned>>

\* database.authenticate_by_role_and_username called with any role
Authenticate(role, username, password) ==
    /\ last' = [Done("authenticate_by_role_and_username",
                     Bool(authenticate_by_role_and_username(role, username, password)))
                   EXCEPT !.args = <<role, username, password>>]
    /\ UNCHANGED <<queries, users, locked, now, session, pc, pending, returned>>

\* database.authenticate_user, the lookup no caller uses
AuthenticateUser(username, password) ==
    /\ last' = [Done("authenticate_user", authenticate_user(users, username, password))
                   EXCEPT !.args = <<username, password>>]
    /\ UNCHANGED <<queries, users, locked, now, session, pc, pending, returned>>

NextAuth ==
    \/ \E r \in LoginRoles, u \in UsernameInputs, p \in PasswordInputs :
          Login(r, u, p)
    \/ Logout
    \/ \E r \in RoleInputs, u \in UsernameInputs, p \in PasswordInputs :
          Authenticate(r, u, p)
    \/ \E u \in UsernameInputs, p \in PasswordInputs : AuthenticateUser(u, p)

SpecAuth == Init /\ [][NextAuth]_vars

(* ------------------------------ properties ------------------------------ *)
\* the number after the first character of a query_id
Suffix(id) == ParseInt(DropFirst(id))

RowOf(q, id) == q[CHOOSE i \in 1..Len(q) : q[i].query_id = id]

UniqueIds(q) == \A i, j \in 1..Len(q) : i # j => q[i].query_id # q[j].query_id

\* the four required fields of the insert_query call a session is in
FormOf(call) ==
    <<call.mail_id, call.mobile_number, call.query_heading, call.query_description>>

\* C1: the query_ids that insert_query calls have returned, whatever table
\* the calls started from and whatever ran between them, are pairwise
\* distinct and each has a larger numeric suffix than every id returned
\* before it.
C1_ReturnedIdsIncrease ==
    \A i, j \in 1..Len(returned) :
        i < j => /\ returned[i] # returned[j]
                 /\ Suffix(returned[i]) < Suffix(returned[j])

ClosedTimeIffClosed(row) ==
    (row.query_closed_time # NULL) <=> (row.status = Closed)

\* C2 as stated: in every reachable table each row has a closed time if
\* and only if its status is Closed.
C2_ClosedTimeIffClosed ==
    \A i \in 1..Len(queries) : ClosedTimeIffClosed(queries[i])

\* C2 amended: every row that insert_query wrote or close_query updated has
\* a closed time if and only if its status is Closed; import_csv is the one
\* operation that stores a row for which this fails.
C2_WrittenRowsConsistent ==
    [][last'.op # "import_csv" =>
         \A i \in 1..Len(queries') :
             (i > Len(queries) \/ queries'[i] # queries[i])
                 => ClosedTimeIffClosed(queries'[i])]_vars

\* close_query has closed a row, next to a row that was imported Closed
\* without a closed time
C2_Witness ==
    /\ last.op = "close_query"
    /\ last.ret = None
    /\ HasQueryId(queries, last.id)
    /\ RowOf(queries, last.id).status = Closed
    /\ RowOf(queries, last.id).query_closed_time # NULL
    /\ \E i \in 1..Len(queries) : ~ClosedTimeIffClosed(queries[i])

\* C3: no operation removes a row or changes its query_id, and a status
\* changes only from Opened to Closed: a Closed row stays Closed.
C3_StatusOneWay ==
    [][\A i \in 1..Len(queries) :
          /\ i <= Len(queries')
          /\ queries'[i].query_id = queries[i].query_id
          /\ \/ queries'[i].status = queries[i].status
             \/ /\ queries[i].status = Opened
                /\ queries'[i].status = Closed]_vars

\* an import that named the id of a row close_query had closed left it Closed
C3_Witness ==
    /\ last.op = "import_csv"
    /\ last.ret = None
    /\ last.id # <<>>
    /\ RowOf(queries, last.id).status = Closed
    /\ RowOf(queries, last.id).query_closed_time # NULL

\* C4 as stated: close_query on a row that an earlier close_query closed
\* leaves the table, and so the row's closed time, as it was.
C4_CloseIdempotent ==
    [][(/\ last'.op = "close_query"
        /\ \E i \in 1..Len(queries) :
              /\ queries[i].query_id = last'.id
              /\ queries[i].status = Closed
              /\ queries[i].query_closed_time # NULL)
       => queries' = queries]_vars

NumericIds(q) == \A id \in QueryIds(q) : Len(id) > 1 /\ id[1] = "Q" /\ Suffix(id) # ValueError

MaxSuffix(q) ==
    IF q = <<>> THEN 0
    ELSE CHOOSE n \in {Suffix(id) : id \in QueryIds(q)} :
            \A id \in QueryIds(q) : Suffix(id) <= n

\* C5 as stated: on a table whose ids are all Q and a number, the id
\* insert_query assigns is Q and the largest number in the table plus one,
\* zero-padded; Q0001 on an empty table.
C5_NextIdIsMaxPlusOne ==
    NumericIds(queries) =>
        get_next_query_id(queries) = FormatQueryId(MaxSuffix(queries) + 1)

\* "all" in every letter case
AllSpellings ==
    {<<a, b, c>> : a \in {"a", "A"}, b \in {"l", "L"}, c \in {"l", "L"}}

IsAll(status) == status = <<>> \/ status[1] \in AllSpellings

\* C6: fetch_queries(s) returns exactly the rows whose status is s, every
\* row when s is absent or "all" in any letter case, each once, without the
\* image column, by query_created_time descending.
C6_FetchFilteredDescending ==
    last.op = "fetch_queries" =>
        LET status == last.status
            rows == last.rows
            wanted == {i \in 1..Len(queries) :
                          IsAll(status) \/ queries[i].status = status[1]}
        IN /\ Len(rows) = Cardinality(wanted)
           /\ \A i \in wanted : \E k \in 1..Len(rows) : rows[k] = SelectColumns(queries[i])
           /\ \A k \in 1..Len(rows) : \E i \in wanted : rows[k] = SelectColumns(queries[i])
           /\ \A k \in 1..(Len(rows) - 1) :
                 rows[k].query_created_time >= rows[k + 1].query_created_time

\* the filter "aLl" returned both rows of the table, one Closed and one
\* Opened, the later one first
C6_Witness ==
    /\ last.op = "fetch_queries"
    /\ last.status = <<<<"a", "L", "l">>>>
    /\ Len(last.rows) = 2
    /\ Len(queries) = 2
    /\ queries[1].status # queries[2].status
    /\ queries[1].query_created_time < queries[2].query_created_time
    /\ last.rows[1].query_id = queries[2].query_id

\* C7: authenticate_by_role_and_username is true exactly for Support with
\* support/support123 and for Client with client/client123, whatever the
\* users table holds; the Login button logs in exactly then.
C7_AuthenticateFixedPairs ==
    last.op \in {"login", "authenticate_by_role_and_username"} =>
        LET role == last.args[1]
            username == last.args[2]
            password == last.args[3]
            valid == \/ role = "Support" /\ username = "support" /\ password = "support123"
                     \/ role = "Client" /\ username = "client" /\ password = "client123"
        IN /\ last.ret = Bool(valid)
           /\ (last.op = "login" /\ valid) =>
                 session = [logged_in |-> TRUE, role |-> role, username |-> username]
           /\ (last.op = "login" /\ ~valid) => session = LoggedOut

\* Support's pair was refused under role Client while the users table
\* held both accounts
C7_Witness ==
    /\ last.op = "authenticate_by_role_and_username"
    /\ last.args = <<"Client", "support", "support123">>
    /\ last.ret = "False"
    /\ authenticate_user(users, "support", "support123") = "Support"

\* C8: a submission with an empty required field ends in the warning: it
\* enters no insert_query call, gets no query_id and leaves the table as
\* it was; a row that an insert_query call adds carries the four fields of
\* its submission, none of them empty, and the id the call computed.
C8_EmptyFieldWritesNothing ==
    [][/\ (last'.op = "submit_query" /\ \E k \in 1..4 : last'.args[k] = "") =>
             /\ last'.ret = "warning"
             /\ queries' = queries
             /\ pending' = pending
             /\ returned' = returned
             /\ \A s \in Sessions : pc'[s] \in {pc[s], "idle"}
       /\ (last'.op = "submit_query" /\ \A k \in 1..4 : last'.args[k] # "") =>
             /\ queries' = queries
             /\ \E s \in Sessions :
                   /\ pc[s] = "ready" /\ pc'[s] = "got_id"
                   /\ FormOf(pending'[s]) = last'.args
       /\ (last'.op = "insert_query" /\ queries' # queries) =>
             \E s \in Sessions :
                 /\ pc[s] = "got_time" /\ pc'[s] = "idle"
                 /\ \A k \in 1..4 : FormOf(pending[s])[k] # ""
                 /\ Len(queries') = Len(queries) + 1
                 /\ SubSeq(queries', 1, Len(queries)) = queries
                 /\ LET row == queries'[Len(queries')]
                    IN /\ row.query_id = pending[s].id
                       /\ <<row.mail_id, row.mobile_number, row.query_heading,
                            row.query_description>> = FormOf(pending[s])]_vars

\* a submission with only the description empty was refused on a table
\* that holds rows
C8_Witness ==
    /\ last.op = "submit_query"
    /\ last.args = <<"a@x.com", "555", "H", "">>
    /\ last.ret = "warning"
    /\ queries # <<>>

\* C9 as stated: import_csv raises only when the file is missing, never
\* for a record whose query_id the table holds, leaves every row of the
\* table as it was, and adds rows only under ids the table lacked.
C9_ImportKeepsExistingRows ==
    [][last'.op = "import_csv" =>
         /\ last'.ret \in {None, FileNotFoundError}
         /\ last'.id # <<>> => last'.ret = None
         /\ Len(queries') >= Len(queries)
         /\ SubSeq(queries', 1, Len(queries)) = queries
         /\ \A i \in (Len(queries) + 1)..Len(queries') :
               /\ ~HasQueryId(queries, queries'[i].query_id)
               /\ \A j \in (Len(queries) + 1)..Len(queries') :
                     i # j => queries'[i].query_id # queries'[j].query_id]_vars

\* C10: with the insert_query calls of two sessions interleaved no
\* query_id ever has two rows; an INSERT under an id that already has a row
\* raises and leaves the table as it was, and so does one that finds the
\* write lock taken; an INSERT that succeeds only adds its row.
C10_RaceKeepsFirstRow ==
    [][/\ UniqueIds(queries')
       /\ \A s \in Sessions :
             (pc[s] = "got_time" /\ pc'[s] = "idle") =>
                 IF locked
                 THEN queries' = queries /\ last'.ret = OperationalError
                 ELSE IF HasQueryId(queries, pending[s].id)
                      THEN queries' = queries /\ last'.ret = IntegrityError
                      ELSE /\ queries' = Append(queries, queries'[Len(queries')])
                           /\ queries'[Len(queries')].query_id = pending[s].id
                           /\ last'.ret = None]_vars

\* both sessions computed Q0001 on the empty table: session 1's INSERT
\* wrote the row, session 2's raised and the row is as session 1 wrote it
C10_Witness ==
    /\ last.op = "insert_query"
    /\ last.ret = IntegrityError
    /\ locked
    /\ Len(queries) = 1
    /\ queries[1].query_id = <<"Q", "0", "0", "0", "1">>
    /\ queries[1].image = "png"

====
